---- MODULE Spec2Model ----
(***************************************************************************)
(* The background request broker of the tknz extension                     *)
(* (src/src/components/SignTxModal.tsx, lines 94-449) together with the    *)
(* signing modal of the same file (lines 1-92).                            *)
(*                                                                         *)
(* A page's content script sends SIGN_TRANSACTION / SIGN_ALL_TRANSACTIONS  *)
(* to the background script.  The main onMessage listener draws a request *)
(* id, notifies the extension UI, asks for the popup and registers a       *)
(* `resolver` listener that closes over the request id and the caller's    *)
(* sendResponse.  Every message that reaches chrome.runtime.onMessage is   *)
(* handed to the main listener and to every registered resolver.           *)
(***************************************************************************)
EXTENDS Integers, Sequences, FiniteSets, TLC

(* ------------------------------ bounds --------------------------------- *)

\* accepted sign requests per run
MaxRequests == 2

\* PING_ACTIVE_WALLET messages per run
MaxPings == 3

Tabs == {"tab1", "tab2"}
\* sender.tab is undefined (popup, side panel), message.tabId is undefined
NoTab == "undefined"

\* The readings of Date.now(): the requests of a run arrive within one clock
\* tick, the case in which the request id rests on Math.random() alone.
Times == {0}
\* the values Math.random() returns
RandomValues == {1, 2}

(* --------------------------- JavaScript values -------------------------- *)

Undefined == <<"undefined", <<>>>>
Str(s) == <<"string", <<s>>>>
Arr(q) == <<"array", q>>

\* base64 transaction blobs a page may submit
Blobs == {"txA", "txB"}
\* the lists a page may hand to signAllTransactions
BlobLists == {<<"txA">>, <<"txA", "txB">>}
\* the payloads of the runs in which any context may send resolutions
BrokerBlobs == {"txA"}
BrokerBlobLists == {<<"txA", "txB">>}

\* `req_${Date.now()}_${Math.random()}`: the string is a function of the
\* clock reading and of the random draw, and of nothing else.
MakeRequestId(now, rnd) == <<"req", now, rnd>>
NoRequestId == <<"none", 0, 0>>
RequestIds == {MakeRequestId(t, r) : t \in Times, r \in RandomValues}

(* ------------------------------ messages -------------------------------- *)

\* A runtime message together with its sender: message.tabId, sender.tab?.id
\* and the fields the handlers of this file read.
Msg(type, tabId, senderTab, requestId, transaction, transactions, signedTransaction, signedTransactions) ==
    [type |-> type, tabId |-> tabId, senderTab |-> senderTab,
     requestId |-> requestId,
     transaction |-> transaction, transactions |-> transactions,
     signedTransaction |-> signedTransaction,
     signedTransactions |-> signedTransactions]

\* the pseudo message that stands for "nothing dispatched yet"
NoMsg == Msg("none", NoTab, NoTab, NoRequestId, Undefined, Undefined, Undefined, Undefined)

\* chrome.tabs.onRemoved(tabId), recorded in the same shape
TabRemovedEvent(t) ==
    Msg("tabs.onRemoved", t, NoTab, NoRequestId, Undefined, Undefined, Undefined, Undefined)

SignTransactionMsg(tab, tx) ==
    Msg("SIGN_TRANSACTION", NoTab, tab, NoRequestId, Str(tx), Undefined, Undefined, Undefined)

SignAllTransactionsMsg(tab, txs) ==
    Msg("SIGN_ALL_TRANSACTIONS", NoTab, tab, NoRequestId, Undefined, Arr(txs), Undefined, Undefined)

ConfirmedTypes == {"SIGN_TRANSACTION_CONFIRMED", "SIGN_ALL_TRANSACTIONS_CONFIRMED"}
RejectedTypes == {"SIGN_TRANSACTION_REJECTED", "SIGN_ALL_TRANSACTIONS_REJECTED"}
ResolutionTypes == ConfirmedTypes \cup RejectedTypes

\* the signed payloads a resolution message may carry
SignedPayloads ==
    { <<Str("sigA"), Undefined>>,
      <<Undefined, Arr(<<"sigA", "sigB">>)>> }

\* Every Confirmed / Rejected message some extension context or content
\* script may send: any type, any request id, any payload, any sender.
ResolutionMsgs ==
    { Msg(ty, NoTab, s, id, Undefined, Undefined, p[1], p[2]) :
        ty \in ConfirmedTypes, s \in {NoTab}, id \in RequestIds, p \in SignedPayloads }
    \cup
    { Msg(ty, NoTab, s, id, Undefined, Undefined, Undefined, Undefined) :
        ty \in RejectedTypes, s \in {NoTab}, id \in RequestIds }

(* -------------------------------- state --------------------------------- *)

VARIABLES
    requests,             \* one record per accepted sign request: its resolver closure
    contentScriptStatus,  \* the tabs whose entry in the Map is true
    openTabs,             \* the tabs that have not been removed
    dispatched,           \* the event the background script handled in the last step
    responses,            \* the sendResponse calls of the last step: <<request, reply>>
    replies,              \* the sendResponse calls the main listener made in the last step
    effects,              \* the collaborator calls of the last step, in order
    storage,              \* chrome.storage.local: the keys the broker writes
    pings,                \* the PING_ACTIVE_WALLET chains: the callback each one awaits
    logged,               \* the wallet_active events handed to logEventToFirestore
    popupOpen,            \* an extension UI context (popup) exists
    shown,                \* the signing modals the UI shows
    toBroker              \* messages the UI has sent and the broker has not received

vars == <<requests, contentScriptStatus, openTabs, dispatched, responses,
          replies, effects, storage, pings, logged, popupOpen, shown, toBroker>>

pingVars == <<pings, logged>>

brokerVars == <<requests, contentScriptStatus, openTabs, dispatched, responses,
                replies, effects, storage, pingVars>>
uiVars == <<popupOpen, shown, toBroker>>

Init ==
    /\ requests = <<>>
    /\ contentScriptStatus = {}
    /\ openTabs = Tabs
    /\ dispatched = NoMsg
    /\ responses = {}
    /\ replies = {}
    /\ effects = <<>>
    /\ storage = [lastBuyToken |-> Undefined, initCoinData |-> Undefined,
                  walletLogged |-> Undefined]
    /\ pings = <<>>
    /\ logged = 0
    /\ popupOpen = FALSE
    /\ shown = {}
    /\ toBroker = {}

(* ----------------------------- the resolvers ---------------------------- *)

\* const targetTabId = message.tabId ?? sender.tab?.id
targetTabId(m) == IF m.tabId # NoTab THEN m.tabId ELSE m.senderTab

\* the reply objects, as sets of <<field, value>>
EmptyReply == {}

\* sendResponse({ signedTransaction: responseMsg.signedTransaction })
signTransactionConfirmedReply(m) == {<<"signedTransaction", m.signedTransaction>>}

\* the reply reads the field of the other resolver
signAllTransactionsConfirmedReply_wrongField(m) == {<<"signedTransactions", m.signedTransaction>>}

\* sendResponse({ signedTransactions: responseMsg.signedTransactions })
signAllTransactionsConfirmedReply(m) == {<<"signedTransactions", m.signedTransactions>>}

\* a rejection reported as an error
rejectedReply_error(m) == {<<"error", Str("rejected")>>}

\* sendResponse({}) of the two REJECTED branches
rejectedReply(m) == EmptyReply

\* the test without the comparison of the request id
signTransactionConfirmed_anyId(r, m) == m.type = "SIGN_TRANSACTION_CONFIRMED"

\* the two tests of the SIGN_TRANSACTION resolver
signTransactionConfirmed(r, m) ==
    m.type = "SIGN_TRANSACTION_CONFIRMED" /\ m.requestId = r.requestId

signTransactionRejected(r, m) ==
    m.type = "SIGN_TRANSACTION_REJECTED" /\ m.requestId = r.requestId

\* the two tests of the SIGN_ALL_TRANSACTIONS resolver
signAllTransactionsConfirmed(r, m) ==
    m.type = "SIGN_ALL_TRANSACTIONS_CONFIRMED" /\ m.requestId = r.requestId

\* the test copied from the SIGN_TRANSACTION resolver
signAllTransactionsRejected_wrongType(r, m) ==
    m.type = "SIGN_TRANSACTION_REJECTED" /\ m.requestId = r.requestId

signAllTransactionsRejected(r, m) ==
    m.type = "SIGN_ALL_TRANSACTIONS_REJECTED" /\ m.requestId = r.requestId

isConfirmed(r, m) ==
    IF r.type = "SIGN_TRANSACTION" THEN signTransactionConfirmed(r, m)
    ELSE signAllTransactionsConfirmed(r, m)

isRejected(r, m) ==
    IF r.type = "SIGN_TRANSACTION" THEN signTransactionRejected(r, m)
    ELSE signAllTransactionsRejected(r, m)

confirmedReply(r, m) ==
    IF r.type = "SIGN_TRANSACTION" THEN signTransactionConfirmedReply(m)
    ELSE signAllTransactionsConfirmedReply(m)

\* The sendResponse calls one run of request r's resolver makes on message m,
\* in order: the CONFIRMED branch, then the REJECTED branch.
resolverReplies(r, m) ==
    (IF isConfirmed(r, m) THEN <<confirmedReply(r, m)>> ELSE <<>>)
    \o (IF isRejected(r, m) THEN <<rejectedReply(m)>> ELSE <<>>)

\* removeListener left out
resolverRemoved_never(r, m) == FALSE

\* removeListener left out of the REJECTED branch
resolverRemoved_confirmedOnly(r, m) == isConfirmed(r, m)

\* chrome.runtime.onMessage.removeListener(resolver) of either branch
resolverRemoved(r, m) == isConfirmed(r, m) \/ isRejected(r, m)

\* Request r after message m was handed to the listeners: its resolver runs
\* only while it is registered.
afterMessage(r, m) ==
    IF r.listening
    THEN [r EXCEPT !.listening = ~resolverRemoved(r, m),
                   !.calls = @ + Len(resolverReplies(r, m))]
    ELSE r

Range(q) == {q[k] : k \in DOMAIN q}

\* the sendResponse calls of the registered resolvers on message m
repliesTo(reqs, m) ==
    UNION { {<<i, rep>> : rep \in Range(resolverReplies(reqs[i], m))} :
              i \in {j \in DOMAIN reqs : reqs[j].listening} }

\* every registered resolver has seen message m
resolversRun(reqs, m) == [i \in DOMAIN reqs |-> afterMessage(reqs[i], m)]

(* --------------------------- the extension UI --------------------------- *)

\* The UI's handler of SHOW_SIGN_TRANSACTION / SHOW_SIGN_ALL_TRANSACTIONS
\* mounts <SignTxModal requestId transactions/>: one transaction becomes a
\* list of one.
ShowSignTransaction(requestId, transaction) ==
    Msg("SHOW_SIGN_TRANSACTION", NoTab, NoTab, requestId, transaction, Undefined, Undefined, Undefined)

\* a notification that carries the first transaction only
ShowSignAllTransactions_firstOnly(requestId, transactions) ==
    Msg("SHOW_SIGN_ALL_TRANSACTIONS", NoTab, NoTab, requestId, Undefined,
        Arr(<<transactions[2][1]>>), Undefined, Undefined)

ShowSignAllTransactions(requestId, transactions) ==
    Msg("SHOW_SIGN_ALL_TRANSACTIONS", NoTab, NoTab, requestId, Undefined, transactions, Undefined, Undefined)

modalFor(n) ==
    [requestId |-> n.requestId,
     transactions |-> IF n.type = "SHOW_SIGN_TRANSACTION"
                      THEN n.transaction[2] ELSE n.transactions[2]]

\* chrome.runtime.sendMessage(notification) followed by
\* chrome.action.openPopup(): the notification reaches the UI when a UI
\* context exists; `opened` is whether openPopup() resolves, `raced` whether
\* a popup opened by this very call is up in time to receive it.
shownAfterNotify(n, opened, raced) ==
    IF popupOpen \/ (opened /\ raced) THEN shown \cup {modalFor(n)} ELSE shown

(* ------------------------- the onMessage handlers ----------------------- *)

\* One collaborator call and how it ended.
Call(name, outcome, value) == <<name, outcome, value>>

\* chrome.runtime.sendMessage({ type: 'SHOW_SIGN_*', ... }), then
\* chrome.action.openPopup().catch(log), then
\* chrome.runtime.onMessage.addListener(resolver): the calls of a sign
\* handler, in the order of its synchronous run
signEffects(opened) ==
    << Call("sendMessage", "ok", Undefined),
       Call("openPopup", IF opened THEN "ok" ELSE "throws", Undefined),
       Call("addListener", "ok", Undefined) >>

\* Date.now() does not run backwards between two requests
ClockReads(now) ==
    now \in Times /\ \A i \in DOMAIN requests : requests[i].requestId[2] <= now

\* a request whose resolver is never added
newRequest_unregistered(type, tab, requestId) ==
    [type |-> type, tab |-> tab, requestId |-> requestId,
     listening |-> FALSE, calls |-> 0]

newRequest(type, tab, requestId) ==
    [type |-> type, tab |-> tab, requestId |-> requestId,
     listening |-> TRUE, calls |-> 0]

\* else if (message.type === 'SIGN_TRANSACTION') { ... return true; }
SignTransaction(tab, tx, now, rnd, opened, raced) ==
    LET m == SignTransactionMsg(tab, tx)
        requestId == MakeRequestId(now, rnd)
    IN  /\ Len(requests) < MaxRequests
        /\ tab \in openTabs
        /\ ClockReads(now)
        /\ targetTabId(m) # NoTab
        /\ shown' = shownAfterNotify(ShowSignTransaction(requestId, m.transaction), opened, raced)
        /\ popupOpen' = (popupOpen \/ opened)
        /\ requests' = Append(resolversRun(requests, m),
                              newRequest("SIGN_TRANSACTION", tab, requestId))
        /\ responses' = repliesTo(requests, m)
        /\ dispatched' = m
        /\ replies' = {}
        /\ effects' = signEffects(opened)
        /\ UNCHANGED <<contentScriptStatus, openTabs, toBroker, storage, pingVars>>

\* else if (message.type === 'SIGN_ALL_TRANSACTIONS') { ... return true; }
SignAllTransactions(tab, txs, now, rnd, opened, raced) ==
    LET m == SignAllTransactionsMsg(tab, txs)
        requestId == MakeRequestId(now, rnd)
    IN  /\ Len(requests) < MaxRequests
        /\ tab \in openTabs
        /\ ClockReads(now)
        /\ targetTabId(m) # NoTab
        /\ shown' = shownAfterNotify(ShowSignAllTransactions(requestId, m.transactions), opened, raced)
        /\ popupOpen' = (popupOpen \/ opened)
        /\ requests' = Append(resolversRun(requests, m),
                              newRequest("SIGN_ALL_TRANSACTIONS", tab, requestId))
        /\ responses' = repliesTo(requests, m)
        /\ dispatched' = m
        /\ replies' = {}
        /\ effects' = signEffects(opened)
        /\ UNCHANGED <<contentScriptStatus, openTabs, toBroker, storage, pingVars>>

\* A Confirmed / Rejected message reaches chrome.runtime.onMessage.  The main
\* listener returns at `if (!targetTabId) return;` or falls through every
\* branch; each registered resolver sees the message.
Resolution(m) ==
    /\ requests' = resolversRun(requests, m)
    /\ responses' = repliesTo(requests, m)
    /\ dispatched' = m
    /\ replies' = {}
    /\ effects' = <<>>
    /\ UNCHANGED <<contentScriptStatus, openTabs, storage, pingVars>>

\* a Confirmed / Rejected message from any extension context
ReceiveResolution(m) ==
    /\ m \in ResolutionMsgs
    /\ Resolution(m)
    /\ UNCHANGED uiVars

\* a removal that also drops the listeners of the tab's requests
requestsAfterTabRemoved_cancelAll(reqs, t) ==
    [i \in DOMAIN reqs |->
        IF reqs[i].tab = t THEN [reqs[i] EXCEPT !.listening = FALSE] ELSE reqs[i]]

\* the pending requests after chrome.tabs.onRemoved(tabId)
requestsAfterTabRemoved(reqs, t) == reqs

\* chrome.tabs.onRemoved.addListener((tabId) => contentScriptStatus.delete(tabId))
TabRemoved(t) ==
    /\ t \in openTabs
    /\ openTabs' = openTabs \ {t}
    /\ contentScriptStatus' = contentScriptStatus \ {t}
    /\ requests' = requestsAfterTabRemoved(requests, t)
    /\ responses' = {}
    /\ dispatched' = TabRemovedEvent(t)
    /\ replies' = {}
    /\ effects' = <<>>
    /\ UNCHANGED <<storage, pingVars>>
    /\ UNCHANGED uiVars

(* ----------------------- the one-shot request kinds --------------------- *)

Bool(b) == <<"boolean", <<b>>>>
Obj(fields) == <<"object", <<fields>>>>
Null == <<"null", <<>>>>

\* the values JavaScript treats as false in `a || b`, `!a` and `a && b`
falsy(v) == v \in {Undefined, Null, Str(""), Bool(FALSE)}

\* typeof v === 'string'
isString(v) == v[1] = "string"

\* JSON.stringify(object): the string is determined by the fields that are
\* defined; a field whose value is undefined is left out.
stringify(o) ==
    Str({<<f, o[2][1][f]>> : f \in {g \in DOMAIN o[2][1] : o[2][1][g] # Undefined}})

\* the collaborators a handler calls
Collaborators == {"storage.get", "searchToken", "storage.set", "openPopup", "sendMessage"}

\* the runs of a handler: no collaborator fails, or one does
FailureSets == {{}} \cup {{c} : c \in Collaborators}

\* the tab whose content script sends the one-shot requests
HandlerTabs == {"tab1"}

\* The outcome of the call of collaborator `name` in a run in which the
\* collaborators in `failing` throw (or reject).
outcomeOf(name, failing) == IF name \in failing THEN "throws" ELSE "ok"

\* message.token of TKNZ_TOKEN_CLICKED
Token(address, symbol) == Obj([address |-> address, symbol |-> symbol])
Tokens == {Token(a, sy) : a \in {Undefined, Str("mintA")}, sy \in {Undefined, Str("AAA")}}

\* what chrome.storage.local.get(['blocklist']) yields as items.blocklist
BlocklistReads == {Undefined, Arr(<<"AAA">>), Arr(<<"mintA">>), Arr(<<"mintB">>)}

\* what searchToken(symbol) resolves to: nothing, or an asset
Asset(id, usdPrice, organicScore) ==
    Obj([id |-> id, usdPrice |-> usdPrice, organicScore |-> organicScore])
Assets ==
    { Null,
      Asset(Undefined, 1, 1),
      Asset(Str("mintB"), 1, 1),
      Asset(Str("mintB"), 0, 1),
      Asset(Str("mintB"), -1, 1),
      Asset(Str("mintB"), 1, 0) }

\* message.options of INIT_TOKEN_CREATE
Options(name, ticker, imageUrl, description) ==
    Obj([name |-> name, ticker |-> ticker, imageUrl |-> imageUrl, description |-> description])
\* a field that is not a string
NotAString == Bool(TRUE)
OptionsSent ==
    { Undefined,
      Options(Undefined, Undefined, Undefined, Undefined),
      Options(Str("Foo"), Undefined, Undefined, Undefined),
      Options(Str(""), Undefined, Undefined, Undefined),
      Options(NotAString, NotAString, NotAString, NotAString),
      Options(NotAString, Undefined, Undefined, Str("a coin")) }

\* the active wallet's public key, as the storage read of CONNECT finds it
PublicKeys == {Undefined, Str("pk1")}

\* A message of one of the one-shot kinds, with the fields its handler reads.
HandlerMsg(type, tab, token, options, isSidebar) ==
    [type |-> type, tabId |-> NoTab, senderTab |-> tab, requestId |-> NoRequestId,
     transaction |-> Undefined, transactions |-> Undefined,
     signedTransaction |-> Undefined, signedTransactions |-> Undefined,
     token |-> token, options |-> options, isSidebar |-> isSidebar]

\* a notification the broker sends to the extension UI
Notification(type, payload, isSidebar) ==
    Obj([type |-> type, payload |-> payload, isSidebar |-> isSidebar])

\* the replies of the main listener, as sets of <<field, value>>
SuccessReply == {<<"success", Bool(TRUE)>>}
FailureReply(reason) == {<<"success", Bool(FALSE)>>, <<"reason", Str(reason)>>}
PublicKeyReply(publicKey) == {<<"success", Bool(TRUE)>>, <<"publicKey", publicKey>>}
InvalidOptionsReply == FailureReply("Missing or invalid required fields")

\* What one run of a handler did: its collaborator calls in order, the
\* sendResponse calls, chrome.storage.local after it, and whether
\* chrome.action.openPopup() resolved.
Run(calls, sent, store, opened) ==
    [effects |-> calls, replies |-> sent, storage |-> store, opened |-> opened]

\* the symbol before the address
tokenId_symbolFirst(token) ==
    IF falsy(token[2][1].symbol) THEN token[2][1].address ELSE token[2][1].symbol

\* const tokenId = token.address || token.symbol
tokenId(token) ==
    IF falsy(token[2][1].address) THEN token[2][1].symbol ELSE token[2][1].address

\* a blocklist that is never read
blocklistOf_empty(read) == <<>>

\* Array.isArray(items.blocklist) ? items.blocklist : []
blocklistOf(read) == IF read[1] = "array" THEN read[2] ELSE <<>>

\* blocklist.includes(tokenId)
isBlocklisted(read, token) ==
    /\ isString(tokenId(token))
    /\ \E k \in DOMAIN blocklistOf(read) : Str(blocklistOf(read)[k]) = tokenId(token)

\* a lookup for every token that has a symbol
needsLookup_anySymbol(token) == ~falsy(token[2][1].symbol)

\* !token.address && token.symbol
needsLookup(token) == falsy(token[2][1].address) /\ ~falsy(token[2][1].symbol)

\* !asset?.id
noAssetFound(asset) == asset = Null \/ falsy(asset[2][1].id)

\* a check of the organic score alone
failsSanity_scoreOnly(asset) == asset[2][1].organicScore <= 0

\* asset.usdPrice <= 0 || asset.organicScore <= 0
failsSanity(asset) == asset[2][1].usdPrice <= 0 \/ asset[2][1].organicScore <= 0

\* token.address = asset.id
withAddress(token, asset) == Token(asset[2][1].id, token[2][1].symbol)

\* a handler whose outer catch logs and does not reply
tokenClicked_catchLogsOnly(token, isSidebar, read, asset, failing, store) ==
    LET e1 == <<Call("storage.get", outcomeOf("storage.get", failing),
                     IF "storage.get" \in failing THEN Undefined ELSE read)>>
    IN  IF "storage.get" \in failing THEN Run(e1, {}, store, FALSE)
        ELSE Run(e1, {FailureReply("blocked")}, store, FALSE)

\* The async body of the TKNZ_TOKEN_CLICKED handler, from the storage read to
\* the reply; `failing` are the collaborators that throw in this run.
tokenClicked(token, isSidebar, read, asset, failing, store) ==
    LET e1 == <<Call("storage.get", outcomeOf("storage.get", failing),
                     IF "storage.get" \in failing THEN Undefined ELSE read)>>
        e2 == IF needsLookup(token)
              THEN Append(e1, Call("searchToken", outcomeOf("searchToken", failing),
                                   IF "searchToken" \in failing THEN Undefined ELSE asset))
              ELSE e1
        found == IF needsLookup(token) THEN withAddress(token, asset) ELSE token
        e3 == Append(e2, Call("storage.set", outcomeOf("storage.set", failing), Undefined))
        store3 == [store EXCEPT !.lastBuyToken = stringify(found)]
        e4 == IF isSidebar THEN e3
              ELSE Append(e3, Call("openPopup", outcomeOf("openPopup", failing), Undefined))
        e5 == Append(e4, Call("sendMessage", outcomeOf("sendMessage", failing),
                              Notification("SHOW_SWAP", found, Bool(isSidebar))))
    IN  IF "storage.get" \in failing
          THEN Run(e1, {FailureReply("unknown")}, store, FALSE)
        ELSE IF isBlocklisted(read, token)
          THEN Run(e1, {FailureReply("blocked")}, store, FALSE)
        ELSE IF needsLookup(token) /\ "searchToken" \in failing
          THEN Run(e2, {FailureReply("unknown")}, store, FALSE)
        ELSE IF needsLookup(token) /\ noAssetFound(asset)
          THEN Run(e2, {FailureReply("unsupported")}, store, FALSE)
        ELSE IF needsLookup(token) /\ failsSanity(asset)
          THEN Run(e2, {FailureReply("unsupported")}, store, FALSE)
        ELSE IF "storage.set" \in failing
          THEN Run(e3, {FailureReply("unknown")}, store, FALSE)
        ELSE IF ~isSidebar /\ "openPopup" \in failing
          THEN Run(e4, {FailureReply("popup")}, store3, FALSE)
        ELSE IF "sendMessage" \in failing
          THEN Run(e5, {FailureReply("unknown")}, store3, ~isSidebar)
        ELSE Run(e5, {SuccessReply}, store3, ~isSidebar)

\* the state after a run of a handler that leaves the resolvers alone
Handled(m, run) ==
    /\ targetTabId(m) # NoTab
    /\ targetTabId(m) \in openTabs
    /\ requests' = resolversRun(requests, m)
    /\ responses' = repliesTo(requests, m)
    /\ dispatched' = m
    /\ replies' = run.replies
    /\ effects' = run.effects
    /\ storage' = run.storage
    /\ popupOpen' = (popupOpen \/ run.opened)
    /\ UNCHANGED <<contentScriptStatus, openTabs, shown, toBroker, pingVars>>

\* else if (message.type === 'TKNZ_TOKEN_CLICKED') { (async () => ...)(); return true; }
TokenClicked(tab, token, isSidebar, read, asset, failing) ==
    Handled(HandlerMsg("TKNZ_TOKEN_CLICKED", tab, token, Undefined, isSidebar),
            tokenClicked(token, isSidebar, read, asset, failing, storage))

\* obj && typeof obj === 'object' && (typeof obj.name === 'string' || ...)
isValidForCoinCreateTrigger(obj) ==
    /\ ~falsy(obj)
    /\ obj[1] = "object"
    /\ \/ isString(obj[2][1].name)
       \/ isString(obj[2][1].ticker)
       \/ isString(obj[2][1].imageUrl)
       \/ isString(obj[2][1].description)

\* a handler that writes initCoinData before it validates
initTokenCreate_storeFirst(options, isSidebar, failing, store) ==
    Run(<<Call("storage.set", "ok", Undefined)>>, {InvalidOptionsReply},
        [store EXCEPT !.initCoinData = Str("{}")], FALSE)

\* The INIT_TOKEN_CREATE handler: the validation branch, then the async body.
initTokenCreate(options, isSidebar, failing, store) ==
    LET e1 == <<Call("storage.set", outcomeOf("storage.set", failing), Undefined)>>
        store1 == IF "storage.set" \in failing THEN store
                  ELSE [store EXCEPT !.initCoinData = stringify(options)]
        e2 == IF isSidebar THEN e1
              ELSE Append(e1, Call("openPopup", outcomeOf("openPopup", failing), Undefined))
        e3 == Append(e2, Call("sendMessage", outcomeOf("sendMessage", failing),
                              Notification("SDK_TOKEN_CREATE", options, Bool(isSidebar))))
    IN  IF ~isValidForCoinCreateTrigger(options)
          THEN Run(<<>>, {InvalidOptionsReply}, store, FALSE)
        ELSE IF ~isSidebar /\ "openPopup" \in failing
          THEN Run(e2, {FailureReply("popup")}, store1, FALSE)
        ELSE IF "sendMessage" \in failing
          THEN Run(e3, {}, store1, ~isSidebar)
        ELSE Run(e3, {SuccessReply}, store1, ~isSidebar)

\* else if (message.type === 'INIT_TOKEN_CREATE') { ... }
InitTokenCreate(tab, options, isSidebar, failing) ==
    Handled(HandlerMsg("INIT_TOKEN_CREATE", tab, Undefined, options, isSidebar),
            initTokenCreate(options, isSidebar, failing, storage))

\* The async body of the CONNECT handler: openPopup() in a try / catch that
\* logs, then the storage read whose callback replies.
connect(publicKey, failing, store) ==
    LET e1 == <<Call("openPopup", outcomeOf("openPopup", failing), Undefined)>>
        e2 == Append(e1, Call("storage.get", outcomeOf("storage.get", failing), Undefined))
    IN  IF "storage.get" \in failing
          THEN Run(e2, {}, store, "openPopup" \notin failing)
        ELSE Run(e2, {PublicKeyReply(publicKey)}, store, "openPopup" \notin failing)

\* else if (message.type === 'CONNECT') { (async () => ...)(); return true; }
Connect(tab, isSidebar, publicKey, failing) ==
    Handled(HandlerMsg("CONNECT", tab, Undefined, Undefined, isSidebar),
            connect(publicKey, failing, storage))

\* chrome.runtime.sendMessage({ type: 'SHOW_SIGN_MESSAGE', ... });
\* sendResponse({ success: true });
signMessage(failing, store) ==
    LET e1 == <<Call("sendMessage", outcomeOf("sendMessage", failing),
                     Notification("SHOW_SIGN_MESSAGE", Undefined, Undefined))>>
    IN  IF "sendMessage" \in failing THEN Run(e1, {}, store, FALSE)
        ELSE Run(e1, {SuccessReply}, store, FALSE)

\* else if (message.type === 'SIGN_MESSAGE') { ...; return true; }
SignMessage(tab, failing) ==
    Handled(HandlerMsg("SIGN_MESSAGE", tab, Undefined, Undefined, FALSE),
            signMessage(failing, storage))

\* a wallet as chrome.storage.local holds it
Wallet(id, publicKey) == [id |-> id, publicKey |-> publicKey]

\* what chrome.storage.local.get(['wallets', 'activeWalletId']) yields
WalletData(wallets, activeWalletId) ==
    Obj([wallets |-> wallets, activeWalletId |-> activeWalletId])

StoredWallets == <<Wallet(Str("w1"), Str("pk1")), Wallet(Str("w2"), Str("pk2"))>>

WalletReads ==
    { WalletData(Undefined, Undefined),
      WalletData(Arr(StoredWallets), Undefined),
      WalletData(Arr(StoredWallets), Str("w2")),
      WalletData(Arr(StoredWallets), Str("w3")),
      WalletData(Arr(<<Wallet(Str("w1"), Undefined)>>), Str("w1")) }

\* Array.isArray(data.wallets) ? data.wallets : []
walletsOf(data) == IF data[2][1].wallets[1] = "array" THEN data[2][1].wallets[2] ELSE <<>>

\* the first wallet of the list, whatever its id
activeWallet_first(data) ==
    IF walletsOf(data) = <<>> THEN Undefined ELSE Obj(walletsOf(data)[1])

\* wallets.find(w => w.id === data.activeWalletId)
activeWallet(data) ==
    LET found == {k \in DOMAIN walletsOf(data) :
                    walletsOf(data)[k].id = data[2][1].activeWalletId}
    IN  IF found = {} THEN Undefined
        ELSE Obj(walletsOf(data)[CHOOSE k \in found : \A j \in found : k <= j])

\* active?.publicKey
publicKeyOf(active) == IF active = Undefined THEN Undefined ELSE active[2][1].publicKey

\* The GET_PUBLIC_KEY handler: one storage read whose callback replies.
getPublicKey(data, failing, store) ==
    LET e1 == <<Call("storage.get", outcomeOf("storage.get", failing),
                     IF "storage.get" \in failing THEN Undefined ELSE data)>>
    IN  IF "storage.get" \in failing THEN Run(e1, {}, store, FALSE)
        ELSE Run(e1, {PublicKeyReply(publicKeyOf(activeWallet(data)))}, store, FALSE)

\* else if (message.type === 'GET_PUBLIC_KEY') { ...; return true; }
GetPublicKey(tab, data, failing) ==
    Handled(HandlerMsg("GET_PUBLIC_KEY", tab, Undefined, Undefined, FALSE),
            getPublicKey(data, failing, storage))

(* --------------------------- PING_ACTIVE_WALLET ------------------------- *)

\* if (message.type === 'PING_ACTIVE_WALLET') {
\*   chrome.storage.local.get(['walletLogged'], (items) => ...); return; }
\* The handler issues the first storage read and returns without a reply.
PingActiveWallet(tab) ==
    LET m == HandlerMsg("PING_ACTIVE_WALLET", tab, Undefined, Undefined, FALSE)
    IN  /\ Len(pings) < MaxPings
        /\ targetTabId(m) # NoTab
        /\ tab \in openTabs
        /\ pings' = Append(pings, "walletLogged")
        /\ requests' = resolversRun(requests, m)
        /\ responses' = repliesTo(requests, m)
        /\ dispatched' = m
        /\ replies' = {}
        /\ effects' = <<Call("storage.get", "ok", Undefined)>>
        /\ UNCHANGED <<contentScriptStatus, openTabs, storage, logged, uiVars>>

\* (items) => { if (items.walletLogged) return; chrome.storage.local.get(
\*   ['wallets', 'activeWalletId'], (data) => ...) }
walletLoggedRead(i) ==
    /\ i \in DOMAIN pings
    /\ pings[i] = "walletLogged"
    /\ pings' = [pings EXCEPT ![i] = IF falsy(storage.walletLogged) THEN "wallets" ELSE "done"]
    /\ effects' = IF falsy(storage.walletLogged)
                  THEN <<Call("storage.get", "ok", Undefined)>> ELSE <<>>
    /\ replies' = {}
    /\ responses' = {}
    /\ UNCHANGED <<requests, contentScriptStatus, openTabs, dispatched, storage, logged, uiVars>>

\* Array.isArray(wallets) && activeWalletId, and then walletAddress
walletAddress(data) ==
    IF data[2][1].wallets[1] = "array" /\ ~falsy(data[2][1].activeWalletId)
    THEN publicKeyOf(activeWallet(data)) ELSE Undefined

\* (data) => { ... if (walletAddress) { logEventToFirestore('wallet_active',
\*   ...); chrome.storage.local.set({ walletLogged: true }); } }
walletsRead(i, data) ==
    /\ i \in DOMAIN pings
    /\ pings[i] = "wallets"
    /\ pings' = [pings EXCEPT ![i] = "done"]
    /\ IF falsy(walletAddress(data))
       THEN /\ effects' = <<>>
            /\ UNCHANGED <<storage, logged>>
       ELSE /\ effects' = << Call("logEventToFirestore", "ok", walletAddress(data)),
                             Call("storage.set", "ok", Undefined) >>
            /\ logged' = logged + 1
            /\ storage' = [storage EXCEPT !.walletLogged = Bool(TRUE)]
    /\ replies' = {}
    /\ responses' = {}
    /\ UNCHANGED <<requests, contentScriptStatus, openTabs, dispatched, uiVars>>

(* --------------------------- the signing modal -------------------------- *)

\* transactions.map(b64 => deserialize, nacl.sign.detached, addSignature,
\* serialize): the signed blob is a function of the blob (and of the wallet)
signBlob(b64) == IF b64 = "txA" THEN "sigA" ELSE "sigB"

signAll(transactions) == [k \in DOMAIN transactions |-> signBlob(transactions[k])]

\* the message handleConfirm sends for a modal
confirmMessage(modal) ==
    LET signed == signAll(modal.transactions)
    IN  Msg(IF Len(modal.transactions) = 1 THEN "SIGN_TRANSACTION_CONFIRMED"
                                            ELSE "SIGN_ALL_TRANSACTIONS_CONFIRMED",
            NoTab, NoTab, modal.requestId, Undefined, Undefined,
            IF Len(signed) = 1 THEN Str(signed[1]) ELSE Undefined,
            IF Len(signed) > 1 THEN Arr(signed) ELSE Undefined)

\* the message handleReject sends for a modal
rejectMessage(modal) ==
    Msg(IF Len(modal.transactions) = 1 THEN "SIGN_TRANSACTION_REJECTED"
                                        ELSE "SIGN_ALL_TRANSACTIONS_REJECTED",
        NoTab, NoTab, modal.requestId, Undefined, Undefined, Undefined, Undefined)

\* onClose(): the UI unmounts the modal
closed(modal) == shown \ {modal}

\* the user clicks Confirm
handleConfirm(modal) ==
    /\ modal \in shown
    /\ toBroker' = toBroker \cup {confirmMessage(modal)}
    /\ shown' = closed(modal)
    /\ UNCHANGED <<popupOpen, brokerVars>>

\* the user clicks Cancel
handleReject(modal) ==
    /\ modal \in shown
    /\ toBroker' = toBroker \cup {rejectMessage(modal)}
    /\ shown' = closed(modal)
    /\ UNCHANGED <<popupOpen, brokerVars>>

\* a message the UI sent reaches chrome.runtime.onMessage of the background
DeliverToBroker(m) ==
    /\ m \in toBroker
    /\ toBroker' = toBroker \ {m}
    /\ Resolution(m)
    /\ UNCHANGED <<popupOpen, shown>>

(* ------------------- the signing modal with an origin ------------------- *)

\* the origins a request may declare
Origins ==
    { Null, Str(""),
      Str("https://tknz.fun"),
      Str("https://dex.example"),
      Str("https://dex.example/launchpad") }

\* String.prototype.includes on the origins above: the pairs <<text, part>>
\* in which `part` occurs in `text`
Occurrences ==
    { <<"https://tknz.fun", "tknz.fun">>,
      <<"https://dex.example/launchpad", "launchpad">> }

\* origin.includes(part)
includes(origin, part) == <<origin[2][1], part>> \in Occurrences

\* origin && (origin.includes('localhost') || ... || origin.includes('launchpad'))
isFromLaunchpad(origin) ==
    /\ ~falsy(origin)
    /\ \/ includes(origin, "localhost")
       \/ includes(origin, "127.0.0.1:3001")
       \/ includes(origin, "tknz.fun")
       \/ includes(origin, "tknz-launchpad")
       \/ includes(origin, "launchpad")

\* <SignTxModal requestId transactions origin onClose/>
modalWithOrigin(requestId, transactions, origin) ==
    [requestId |-> requestId, transactions |-> transactions, origin |-> origin]

\* The UI mounts the modal for a request it was notified of; it shows one
\* signing modal at a time.
MountModal(requestId, transactions, origin) ==
    /\ shown = {}
    /\ shown' = {modalWithOrigin(requestId, transactions, origin)}
    /\ popupOpen' = TRUE
    /\ UNCHANGED <<toBroker, brokerVars>>

\* a confirmation whose message depends on the origin
resolutionByOrigin_launchpadOnly(modal, message) ==
    IF isFromLaunchpad(modal.origin) THEN message
    ELSE [message EXCEPT !.signedTransaction = Undefined, !.signedTransactions = Undefined]

\* chrome.runtime.sendMessage({ type, requestId, ... }) of handleConfirm and
\* handleReject: the message the modal sends for a decision
resolutionByOrigin(modal, message) == message

\* onClose(), and window.close() when the request came from the launchpad
afterDecision(modal) ==
    /\ shown' = IF isFromLaunchpad(modal.origin) THEN {} ELSE closed(modal)
    /\ popupOpen' = (popupOpen /\ ~isFromLaunchpad(modal.origin))

\* the user clicks Confirm in the modal that knows the origin
handleConfirmWithOrigin(modal) ==
    /\ modal \in shown
    /\ toBroker' = toBroker \cup {resolutionByOrigin(modal, confirmMessage(modal))}
    /\ afterDecision(modal)
    /\ UNCHANGED brokerVars

\* the user clicks Cancel in the modal that knows the origin
handleRejectWithOrigin(modal) ==
    /\ modal \in shown
    /\ toBroker' = toBroker \cup {resolutionByOrigin(modal, rejectMessage(modal))}
    /\ afterDecision(modal)
    /\ UNCHANGED brokerVars

(* ---------------------------- specifications ---------------------------- *)

\* The broker under every sender: any context may send any Confirmed or
\* Rejected message at any time, and tabs are removed.
Next ==
    \/ \E tab \in Tabs, tx \in BrokerBlobs, now \in Times, rnd \in RandomValues,
          opened \in BOOLEAN, raced \in BOOLEAN :
          SignTransaction(tab, tx, now, rnd, opened, raced)
    \/ \E tab \in Tabs, txs \in BrokerBlobLists, now \in Times, rnd \in RandomValues,
          opened \in BOOLEAN, raced \in BOOLEAN :
          SignAllTransactions(tab, txs, now, rnd, opened, raced)
    \/ \E m \in ResolutionMsgs : ReceiveResolution(m)
    \/ \E t \in Tabs : TabRemoved(t)

Spec == Init /\ [][Next]_vars

\* The broker together with the UI: requests are surfaced, the user decides
\* in the modal, and the modal's message travels back.
UiNext ==
    \/ \E tab \in Tabs, tx \in Blobs, now \in Times, rnd \in RandomValues,
          opened \in BOOLEAN, raced \in BOOLEAN :
          SignTransaction(tab, tx, now, rnd, opened, raced)
    \/ \E tab \in Tabs, txs \in BlobLists, now \in Times, rnd \in RandomValues,
          opened \in BOOLEAN, raced \in BOOLEAN :
          SignAllTransactions(tab, txs, now, rnd, opened, raced)
    \/ \E modal \in shown : handleConfirm(modal)
    \/ \E modal \in shown : handleReject(modal)
    \/ \E m \in toBroker : DeliverToBroker(m)

\* The user decides every modal that is shown and the runtime delivers every
\* message the UI sent.
UiFairness ==
    /\ WF_vars(\E modal \in shown : handleConfirm(modal) \/ handleReject(modal))
    /\ WF_vars(\E m \in toBroker : DeliverToBroker(m))

UiSpec == Init /\ [][UiNext]_vars /\ UiFairness

\* The one-shot request kinds of the broker: each message is handled to its
\* reply by the main listener, under every outcome of the collaborators.
HandlerNext ==
    \/ \E tab \in HandlerTabs, token \in Tokens, isSidebar \in BOOLEAN,
          read \in BlocklistReads, asset \in Assets, failing \in FailureSets :
          TokenClicked(tab, token, isSidebar, read, asset, failing)
    \/ \E tab \in HandlerTabs, options \in OptionsSent, isSidebar \in BOOLEAN,
          failing \in FailureSets :
          InitTokenCreate(tab, options, isSidebar, failing)
    \/ \E tab \in HandlerTabs, isSidebar \in BOOLEAN, publicKey \in PublicKeys,
          failing \in FailureSets :
          Connect(tab, isSidebar, publicKey, failing)
    \/ \E tab \in HandlerTabs, failing \in FailureSets : SignMessage(tab, failing)
    \/ \E tab \in HandlerTabs, data \in WalletReads, failing \in FailureSets :
          GetPublicKey(tab, data, failing)

HandlerSpec == Init /\ [][HandlerNext]_vars

\* The signing modal that is given the origin of the request: the UI mounts
\* it, the user decides, the message travels to the broker.
ModalNext ==
    \/ \E requestId \in RequestIds, transactions \in BlobLists, origin \in Origins :
          MountModal(requestId, transactions, origin)
    \/ \E modal \in shown : handleConfirmWithOrigin(modal)
    \/ \E modal \in shown : handleRejectWithOrigin(modal)
    \/ \E m \in toBroker : DeliverToBroker(m)

ModalSpec == Init /\ [][ModalNext]_vars

\* The PING_ACTIVE_WALLET messages and the storage callbacks they start, in
\* every interleaving.
PingNext ==
    \/ \E tab \in Tabs : PingActiveWallet(tab)
    \/ \E i \in DOMAIN pings : walletLoggedRead(i)
    \/ \E i \in DOMAIN pings, data \in WalletReads : walletsRead(i, data)

PingSpec == Init /\ [][PingNext]_vars

(* ------------------------ content script status ------------------------ *)

\* a message of the content-script protocol: message.tabId may name any tab,
\* the sender is an open tab or an extension page
TabMsg(type, tabId, senderTab) ==
    Msg(type, tabId, senderTab, NoRequestId, Undefined, Undefined, Undefined, Undefined)

\* chrome.tabs.sendMessage(targetTabId, { type: 'START_SELECT_MODE' })
StartSelectMode(t) == Call("tabs.sendMessage", "ok", <<t, "START_SELECT_MODE">>)

\* if (message.type === 'CONTENT_SCRIPT_READY') contentScriptStatus.set(targetTabId, true)
ContentScriptReady(tabId, senderTab) ==
    LET m == TabMsg("CONTENT_SCRIPT_READY", tabId, senderTab)
    IN  /\ senderTab \in openTabs \cup {NoTab}
        /\ targetTabId(m) # NoTab
        /\ contentScriptStatus' = contentScriptStatus \cup {targetTabId(m)}
        /\ requests' = resolversRun(requests, m)
        /\ responses' = repliesTo(requests, m)
        /\ dispatched' = m
        /\ replies' = {}
        /\ effects' = <<>>
        /\ UNCHANGED <<openTabs, storage, pingVars, uiVars>>

\* an injection into every tab, whatever its flag
injectContentScript_always(status, t, injection) ==
    IF injection = "ok"
    THEN << Call("executeScript", "ok", t), StartSelectMode(t) >>
    ELSE << Call("executeScript", "throws", t) >>

\* if (!contentScriptStatus.get(targetTabId)) executeScript(...).then(() =>
\*   tabs.sendMessage(START_SELECT_MODE)).catch(log)
\* else tabs.sendMessage(START_SELECT_MODE)
injectContentScript(status, t, injection) ==
    IF t \notin status
    THEN IF injection = "ok"
         THEN << Call("executeScript", "ok", t), StartSelectMode(t) >>
         ELSE << Call("executeScript", "throws", t) >>
    ELSE << StartSelectMode(t) >>

\* else if (message.type === 'INJECT_CONTENT_SCRIPT'): the injection into a
\* tab that is gone rejects
InjectContentScript(tabId, senderTab, injection) ==
    LET m == TabMsg("INJECT_CONTENT_SCRIPT", tabId, senderTab)
    IN  /\ senderTab \in openTabs \cup {NoTab}
        /\ targetTabId(m) # NoTab
        /\ targetTabId(m) \notin openTabs => injection = "throws"
        /\ requests' = resolversRun(requests, m)
        /\ responses' = repliesTo(requests, m)
        /\ dispatched' = m
        /\ replies' = {}
        /\ effects' = injectContentScript(contentScriptStatus, targetTabId(m), injection)
        /\ UNCHANGED <<contentScriptStatus, openTabs, storage, pingVars, uiVars>>

\* The content-script protocol and the removal of tabs.
TabNext ==
    \/ \E tabId \in Tabs \cup {NoTab}, senderTab \in Tabs \cup {NoTab} :
          ContentScriptReady(tabId, senderTab)
    \/ \E tabId \in Tabs \cup {NoTab}, senderTab \in Tabs \cup {NoTab},
          injection \in {"ok", "throws"} :
          InjectContentScript(tabId, senderTab, injection)
    \/ \E t \in Tabs : TabRemoved(t)

TabSpec == Init /\ [][TabNext]_vars

(* ------------------- the broker that uses the side panel ---------------- *)

\* the collaborators the INIT_TOKEN_CREATE handler of this variant calls
SidePanelCollaborators ==
    {"storage.set", "sendMessage", "openPopup", "sidePanel.setOptions", "sidePanel.open"}

\* sidePanel.open then sidePanel.setOptions, the fallback of both contexts:
\* its calls, in order
sidePanelFallback(failing) ==
    IF "sidePanel.open" \in failing
    THEN << Call("sidePanel.open", "throws", Undefined) >>
    ELSE << Call("sidePanel.open", "ok", Undefined),
            Call("sidePanel.setOptions", outcomeOf("sidePanel.setOptions", failing), Undefined) >>

\* The INIT_TOKEN_CREATE handler of the variant that falls back to the side
\* panel: validation, storage.set in a try / catch, the SDK_TOKEN_CREATE
\* notification, then sidePanel.setOptions (sidebar) or openPopup (popup);
\* sendResponse is called in the catch branches only.
initTokenCreateSidePanel(options, isSidebar, failing, store) ==
    LET e1 == <<Call("storage.set", outcomeOf("storage.set", failing), Undefined)>>
        store1 == IF "storage.set" \in failing THEN store
                  ELSE [store EXCEPT !.initCoinData = stringify(options)]
        e2 == Append(e1, Call("sendMessage", outcomeOf("sendMessage", failing),
                              Notification("SDK_TOKEN_CREATE", options, Bool(isSidebar))))
        e3 == IF isSidebar
              THEN Append(e2, Call("sidePanel.setOptions",
                                   outcomeOf("sidePanel.setOptions", failing), Undefined))
              ELSE Append(e2, Call("openPopup", outcomeOf("openPopup", failing), Undefined))
        e4 == e3 \o sidePanelFallback(failing)
    IN  IF ~isValidForCoinCreateTrigger(options)
          THEN Run(<<>>, {InvalidOptionsReply}, store, FALSE)
        ELSE IF "sendMessage" \in failing
          THEN Run(e2, {}, store1, FALSE)
        ELSE IF isSidebar /\ "sidePanel.setOptions" \notin failing
          THEN Run(e3, {}, store1, FALSE)
        ELSE IF isSidebar /\ ("sidePanel.open" \in failing \/ "sidePanel.setOptions" \in failing)
          THEN Run(e4, {FailureReply("sidePanel")}, store1, FALSE)
        ELSE IF isSidebar
          THEN Run(e4, {}, store1, FALSE)
        ELSE IF "openPopup" \in failing
          THEN Run(e4, {FailureReply("popup")}, store1, FALSE)
        ELSE Run(e3, {}, store1, TRUE)

\* else if (message.type === 'INIT_TOKEN_CREATE') { ... } of this variant
InitTokenCreateSidePanel(tab, options, isSidebar, failing) ==
    Handled(HandlerMsg("INIT_TOKEN_CREATE", tab, Undefined, options, isSidebar),
            initTokenCreateSidePanel(options, isSidebar, failing, storage))

\* The INIT_TOKEN_CREATE requests of the variant that uses the side panel,
\* under every outcome of its collaborators.
SidePanelNext ==
    \E tab \in HandlerTabs, options \in OptionsSent, isSidebar \in BOOLEAN,
       failing \in SUBSET SidePanelCollaborators :
       InitTokenCreateSidePanel(tab, options, isSidebar, failing)

SidePanelSpec == Init /\ [][SidePanelNext]_vars

(* ----------------------- the guard of the main listener ----------------- *)

\* the message types the main listener has a branch for, and one it has not
MainListenerTypes ==
    { "PING_ACTIVE_WALLET", "CONTENT_SCRIPT_READY", "INJECT_CONTENT_SCRIPT",
      "CONTENT_SELECTED", "TKNZ_TOKEN_CLICKED", "CONNECT", "SIGN_TRANSACTION",
      "SIGN_ALL_TRANSACTIONS", "SIGN_MESSAGE", "GET_PUBLIC_KEY", "INIT_TOKEN_CREATE",
      "OTHER" }

\* a message of the given type with the fields its branch reads, sent with
\* message.tabId = tabId by the sender senderTab
AnyMessage(type, tabId, senderTab) ==
    [ HandlerMsg(type, senderTab,
                 IF type = "TKNZ_TOKEN_CLICKED" THEN Token(Str("mintA"), Undefined) ELSE Undefined,
                 IF type = "INIT_TOKEN_CREATE"
                   THEN Options(Str("Foo"), Undefined, Undefined, Undefined) ELSE Undefined,
                 FALSE)
      EXCEPT !.tabId = tabId,
             !.transaction = IF type = "SIGN_TRANSACTION" THEN Str("txA") ELSE Undefined,
             !.transactions = IF type = "SIGN_ALL_TRANSACTIONS"
                                THEN Arr(<<"txA", "txB">>) ELSE Undefined ]

\* a listener without the guard
targetless_never(m) == FALSE

\* if (!targetTabId) return;
targetless(m) == targetTabId(m) = NoTab

\* The branch of the main listener that message m selects, in a run in which
\* every collaborator call succeeds: its calls, replies, storage and popup.
handlerRun(m, store, status) ==
    CASE m.type = "PING_ACTIVE_WALLET" ->
           Run(<<Call("storage.get", "ok", Undefined)>>, {}, store, FALSE)
      [] m.type = "INJECT_CONTENT_SCRIPT" ->
           Run(injectContentScript(status, targetTabId(m), "ok"), {}, store, FALSE)
      [] m.type = "CONTENT_SELECTED" ->
           Run(<<Call("storage.set", "ok", Undefined), Call("openPopup", "ok", Undefined)>>,
               {}, store, TRUE)
      [] m.type = "TKNZ_TOKEN_CLICKED" ->
           tokenClicked(m.token, m.isSidebar, Undefined, Null, {}, store)
      [] m.type = "CONNECT" -> connect(Str("pk1"), {}, store)
      [] m.type \in {"SIGN_TRANSACTION", "SIGN_ALL_TRANSACTIONS"} -> Run(signEffects(TRUE), {}, store, TRUE)
      [] m.type = "SIGN_MESSAGE" -> signMessage({}, store)
      [] m.type = "GET_PUBLIC_KEY" ->
           getPublicKey(WalletData(Arr(StoredWallets), Str("w2")), {}, store)
      [] m.type = "INIT_TOKEN_CREATE" ->
           initTokenCreate(m.options, m.isSidebar, {}, store)
      [] OTHER -> Run(<<>>, {}, store, FALSE)

\* the main listener on message m: the guard, then the branch
mainListener(m, store, status) ==
    IF targetless(m) THEN Run(<<>>, {}, store, FALSE) ELSE handlerRun(m, store, status)

\* A message of any type from any sender reaches chrome.runtime.onMessage:
\* the main listener runs on it, and so does every registered resolver.
OnMessage(type, tabId, senderTab, rnd, raced) ==
    LET m == AnyMessage(type, tabId, senderTab)
        run == mainListener(m, storage, contentScriptStatus)
        handled == ~targetless(m)
        requestId == MakeRequestId(0, rnd)
        notification == IF type = "SIGN_TRANSACTION"
                        THEN ShowSignTransaction(requestId, m.transaction)
                        ELSE ShowSignAllTransactions(requestId, m.transactions)
    IN  /\ senderTab \in openTabs \cup {NoTab}
        /\ type \in {"SIGN_TRANSACTION", "SIGN_ALL_TRANSACTIONS"} => Len(requests) < MaxRequests
        /\ type = "PING_ACTIVE_WALLET" => Len(pings) < MaxPings
        /\ requests' = IF handled /\ type \in {"SIGN_TRANSACTION", "SIGN_ALL_TRANSACTIONS"}
                       THEN Append(resolversRun(requests, m),
                                   newRequest(type, targetTabId(m), requestId))
                       ELSE resolversRun(requests, m)
        /\ responses' = repliesTo(requests, m)
        /\ dispatched' = m
        /\ replies' = run.replies
        /\ effects' = run.effects
        /\ storage' = run.storage
        /\ popupOpen' = (popupOpen \/ run.opened)
        /\ shown' = IF handled /\ type \in {"SIGN_TRANSACTION", "SIGN_ALL_TRANSACTIONS"}
                    THEN shownAfterNotify(notification, TRUE, raced)
                    ELSE shown
        /\ contentScriptStatus' = IF handled /\ type = "CONTENT_SCRIPT_READY"
                                  THEN contentScriptStatus \cup {targetTabId(m)}
                                  ELSE contentScriptStatus
        /\ pings' = IF handled /\ type = "PING_ACTIVE_WALLET"
                    THEN Append(pings, "walletLogged") ELSE pings
        /\ UNCHANGED <<openTabs, toBroker, logged>>

\* Messages of every type, with and without a target tab; the request ids
\* of these runs hold one draw of Math.random().
GuardNext ==
    \E type \in MainListenerTypes, tabId \in HandlerTabs \cup {NoTab},
       senderTab \in HandlerTabs \cup {NoTab}, rnd \in {1}, raced \in BOOLEAN :
       OnMessage(type, tabId, senderTab, rnd, raced)

GuardSpec == Init /\ [][GuardNext]_vars

(* ------------------- the signing state of the modal --------------------- *)

\* the lists of these runs: "bad" is a blob VersionedTransaction.deserialize
\* throws on
SigningLists == {<<"txA">>, <<"txA", "txB">>, <<"txA", "bad">>}

\* VersionedTransaction.deserialize(Buffer.from(b64, 'base64')) returns
deserializes(b64) == b64 \in Blobs

\* signing that stops at the first transaction
signs_firstOnly(modal) == modal.wallet /\ deserializes(modal.transactions[1])

\* transactions.map(...) of handleConfirm returns: activeWallet.keypair is
\* there and every blob deserializes
signs(modal) ==
    /\ modal.wallet
    /\ \A k \in DOMAIN modal.transactions : deserializes(modal.transactions[k])

\* <SignTxModal requestId transactions onClose/> as mounted, with
\* useState(false) for signing.  wallet: useStore() yields an active wallet;
\* animated: the component awaits its animations between signing and sending;
\* open: onClose() has not been called; phase: where handleConfirm stands;
\* failed: the catch of handleConfirm ran last; sent: the sendMessage calls.
signingModal(requestId, transactions, wallet, animated) ==
    [requestId |-> requestId, transactions |-> transactions, wallet |-> wallet,
     animated |-> animated, open |-> TRUE, signing |-> FALSE, phase |-> "idle",
     failed |-> FALSE, sent |-> <<>>]

\* buttons that are rendered without a wallet
offersActions_withoutWallet(modal) == modal.open

\* if (!activeWallet) return <div>Wallet not initialized.</div>: the buttons
\* are rendered only with an active wallet
offersActions(modal) == modal.open /\ modal.wallet

\* buttons that ignore the signing state
enabled_whileSigning(modal) == offersActions(modal)

\* disabled={signing}
enabled(modal) == offersActions(modal) /\ ~modal.signing

\* the modals after one of them changed
modalsWith(modal, new) == (shown \ {modal}) \cup {new}

\* chrome.runtime.sendMessage(message); onClose()
sentAndClosed(modal, message) ==
    [modal EXCEPT !.sent = Append(@, message), !.open = FALSE, !.phase = "done"]

\* catch (err) { console.error('Signing failed', err); setSigning(false); }
signingFailed(modal) ==
    [modal EXCEPT !.signing = FALSE, !.phase = "idle", !.failed = TRUE]

\* The sign handler accepted a request and the UI, which was open, mounted
\* the modal for it; every request is mounted once.
MountSigningModal(tab, requestId, transactions, wallet, animated) ==
    /\ Len(requests) < MaxRequests
    /\ \A modal \in shown : modal.requestId # requestId
    /\ requests' = Append(requests,
                          newRequest(IF Len(transactions) = 1 THEN "SIGN_TRANSACTION"
                                                               ELSE "SIGN_ALL_TRANSACTIONS",
                                     tab, requestId))
    /\ shown' = shown \cup {signingModal(requestId, transactions, wallet, animated)}
    /\ popupOpen' = TRUE
    /\ UNCHANGED <<contentScriptStatus, openTabs, dispatched, responses, replies,
                   effects, storage, pingVars, toBroker>>

\* The user clicks Confirm.  The component without animations runs
\* handleConfirm to its end; the animated one sets signing and awaits.
clickConfirm(modal) ==
    /\ modal \in shown
    /\ enabled(modal)
    /\ IF modal.animated
       THEN /\ shown' = modalsWith(modal, [modal EXCEPT !.signing = TRUE,
                                                        !.phase = "animating",
                                                        !.failed = FALSE])
            /\ UNCHANGED toBroker
       ELSE IF signs(modal)
       THEN /\ shown' = modalsWith(modal, sentAndClosed([modal EXCEPT !.signing = TRUE,
                                                                       !.failed = FALSE],
                                                         confirmMessage(modal)))
            /\ toBroker' = toBroker \cup {confirmMessage(modal)}
       ELSE /\ shown' = modalsWith(modal, signingFailed(modal))
            /\ UNCHANGED toBroker
    /\ UNCHANGED <<popupOpen, brokerVars>>

\* the animation of the steps is over: transactions.map(...) runs, then
\* setIsSuccess(true) or the catch
signAfterAnimation(modal) ==
    /\ modal \in shown
    /\ modal.phase = "animating"
    /\ shown' = modalsWith(modal, IF signs(modal) THEN [modal EXCEPT !.phase = "success"]
                                  ELSE signingFailed(modal))
    /\ UNCHANGED <<popupOpen, toBroker, brokerVars>>

\* the success animation is over: sendMessage(Confirmed), onClose()
sendAfterSuccess(modal) ==
    /\ modal \in shown
    /\ modal.phase = "success"
    /\ shown' = modalsWith(modal, sentAndClosed(modal, confirmMessage(modal)))
    /\ toBroker' = toBroker \cup {confirmMessage(modal)}
    /\ UNCHANGED <<popupOpen, brokerVars>>

\* the user clicks Cancel: sendMessage(Rejected), onClose()
clickReject(modal) ==
    /\ modal \in shown
    /\ enabled(modal)
    /\ shown' = modalsWith(modal, [modal EXCEPT !.sent = Append(@, rejectMessage(modal)),
                                                !.open = FALSE])
    /\ toBroker' = toBroker \cup {rejectMessage(modal)}
    /\ UNCHANGED <<popupOpen, brokerVars>>

\* The modal through every sequence of clicks, with and without a wallet,
\* with blobs that sign and blobs that do not.
SigningNext ==
    \/ \E tab \in HandlerTabs, requestId \in RequestIds, transactions \in SigningLists,
          wallet \in BOOLEAN, animated \in BOOLEAN :
          MountSigningModal(tab, requestId, transactions, wallet, animated)
    \/ \E modal \in shown : clickConfirm(modal)
    \/ \E modal \in shown : signAfterAnimation(modal)
    \/ \E modal \in shown : sendAfterSuccess(modal)
    \/ \E modal \in shown : clickReject(modal)
    \/ \E m \in toBroker : DeliverToBroker(m)

SigningSpec == Init /\ [][SigningNext]_vars

(* ------------------------------- properties ----------------------------- *)

\* the message types that answer a request of a kind
ConfirmedTypeOf(kind) ==
    IF kind = "SIGN_TRANSACTION" THEN "SIGN_TRANSACTION_CONFIRMED"
    ELSE "SIGN_ALL_TRANSACTIONS_CONFIRMED"

RejectedTypeOf(kind) ==
    IF kind = "SIGN_TRANSACTION" THEN "SIGN_TRANSACTION_REJECTED"
    ELSE "SIGN_ALL_TRANSACTIONS_REJECTED"

\* m is a Confirmed / Rejected message of request r's kind that carries its id
Answers(m, r) ==
    /\ m.type \in {ConfirmedTypeOf(r.type), RejectedTypeOf(r.type)}
    /\ m.requestId = r.requestId

\* the sendResponse calls request i had before the step
callsBefore(i) == IF i \in DOMAIN requests THEN requests[i].calls ELSE 0

C3_UnknownIdIgnored ==
    [][ ( /\ dispatched'.type \in ResolutionTypes
          /\ \A i \in DOMAIN requests :
               requests[i].listening => requests[i].requestId # dispatched'.requestId )
        => /\ requests' = requests
           /\ responses' = {}
      ]_vars

\* a message of a pending request's kind arrived under another id
C3_Witness ==
    /\ responses = {}
    /\ \E i \in DOMAIN requests :
         /\ requests[i].listening
         /\ dispatched.type = ConfirmedTypeOf(requests[i].type)
    /\ \A i \in DOMAIN requests :
         requests[i].listening => requests[i].requestId # dispatched.requestId

\* C4: sendResponse of a sign request is invoked only in a step in which the
\* broker receives a Confirmed or Rejected message of that request's kind
\* carrying that request's id.
C4_ReplyOnlyOnResolution ==
    [][ \A i \in DOMAIN requests' :
          ( \/ requests'[i].calls > callsBefore(i)
            \/ \E rep \in responses' : rep[1] = i )
          => Answers(dispatched', requests'[i])
      ]_vars

\* a request was replied to while another one stayed pending
C4_Witness ==
    \E rep \in responses : \E j \in DOMAIN requests :
        /\ Answers(dispatched, requests[rep[1]])
        /\ requests[rep[1]].calls = 1
        /\ requests[j].listening
        /\ requests[j].calls = 0

\* C5: a request's resolver is registered exactly while the request has been
\* accepted and sendResponse has not been invoked for it.
C5_ListenerIffUnanswered ==
    \A i \in DOMAIN requests : requests[i].listening <=> requests[i].calls = 0

\* the step that delivered the reply removed the listener
C5_Witness ==
    \E rep \in responses :
        /\ ~requests[rep[1]].listening
        /\ requests[rep[1]].calls = 1
        /\ dispatched.type \in RejectedTypes

\* C6: the reply caused by a Confirmed message holds exactly one field,
\* signedTransaction for a SIGN_TRANSACTION request and signedTransactions
\* for a SIGN_ALL_TRANSACTIONS request, with the value of that field of the
\* message.
C6_ConfirmedReplyCarriesPayload ==
    dispatched.type \in ConfirmedTypes
    => \A rep \in responses :
         rep[2] = IF requests[rep[1]].type = "SIGN_TRANSACTION"
                  THEN {<<"signedTransaction", dispatched.signedTransaction>>}
                  ELSE {<<"signedTransactions", dispatched.signedTransactions>>}

\* a SIGN_ALL_TRANSACTIONS request was confirmed with a list of signatures
C6_Witness ==
    /\ dispatched.type = "SIGN_ALL_TRANSACTIONS_CONFIRMED"
    /\ \E rep \in responses :
         /\ requests[rep[1]].type = "SIGN_ALL_TRANSACTIONS"
         /\ rep[2] = {<<"signedTransactions", Arr(<<"sigA", "sigB">>)>>}

\* C7: a Rejected message that answers a pending request makes the caller
\* receive the empty object, and no reply caused by a Rejected message holds
\* any field, for both kinds of request.
C7_RejectedReplyIsEmpty ==
    [][ dispatched'.type \in RejectedTypes
        => /\ \A rep \in responses' : rep[2] = {}
           /\ \A i \in DOMAIN requests :
                (requests[i].listening /\ Answers(dispatched', requests[i]))
                => <<i, {}>> \in responses'
      ]_vars

\* a SIGN_TRANSACTION request was rejected
C7_Witness ==
    /\ dispatched.type = "SIGN_TRANSACTION_REJECTED"
    /\ \E rep \in responses : requests[rep[1]].type = "SIGN_TRANSACTION"

\* C10: the resolver of a pending request is removed only in a step in which
\* the broker receives a Confirmed / Rejected message carrying the request's
\* id; in every other step (another message, another request's resolution,
\* a tab removal) the entry stays, registered and unchanged.
C10_OnlyResolutionRemoves ==
    [][ \A i \in DOMAIN requests :
          /\ i \in DOMAIN requests'
          /\ requests'[i].requestId = requests[i].requestId
          /\ (requests[i].listening /\ ~requests'[i].listening)
             => /\ dispatched'.type \in ResolutionTypes
                /\ dispatched'.requestId = requests[i].requestId
      ]_vars

\* a request is still pending after its tab was removed and after a
\* resolution of another id was received
C10_Witness ==
    \E i \in DOMAIN requests :
        /\ requests[i].listening
        /\ requests[i].tab \notin openTabs
        /\ dispatched.type \in ResolutionTypes
        /\ dispatched.requestId # requests[i].requestId

\* C2: of two sign requests that are pending at the same time, a Confirmed /
\* Rejected message that answers one finds them under distinct request ids,
\* causes no reply on the other's channel and leaves the other pending with
\* its listener registered.
C2_PendingRequestsIndependent ==
    [][ \A i, j \in DOMAIN requests :
          ( /\ i # j
            /\ requests[i].listening
            /\ requests[j].listening
            /\ Answers(dispatched', requests[i]) )
          => /\ requests[i].requestId # requests[j].requestId
             /\ requests'[j] = requests[j]
             /\ \A rep \in responses' : rep[1] # j
      ]_vars

\* C9: the step that removes a tab settles the reply channel of every request
\* pending for that tab and removes its listener, and leaves the entries of
\* the other tabs as they are.
C9_TabRemovalRejectsPending ==
    [][ \A t \in Tabs :
          (t \in openTabs /\ t \notin openTabs')
          => \A i \in DOMAIN requests :
               /\ i \in DOMAIN requests'
               /\ (requests[i].tab = t /\ requests[i].listening)
                  => /\ ~requests'[i].listening
                     /\ requests'[i].calls = requests[i].calls + 1
               /\ requests[i].tab # t => requests'[i] = requests[i]
      ]_vars

\* C8: every accepted sign request is replied to exactly once: when the user
\* decides every modal that is shown and every message the UI sends is
\* delivered, an accepted request is eventually replied to, also when no
\* popup was open when the broker sent the SHOW_SIGN_* notification.
C8_EveryRequestResolved ==
    /\ [](\A i \in DOMAIN requests : requests[i].calls <= 1)
    /\ \A i \in 1..MaxRequests :
         (Len(requests) >= i) ~> (Len(requests) >= i /\ requests[i].calls = 1)

(* ------------------- properties of the one-shot kinds ------------------- *)

\* the collaborator calls of the step that is being taken
calledNext(name) == {k \in DOMAIN effects' : effects'[k][1] = name}

\* the calls of collaborator `name` in the last step
called(name) == {k \in DOMAIN effects : effects[k][1] = name}

\* C11: no two pending requests hold the same request identifier, and the
\* step that accepts a sign request gives it an identifier different from
\* every identifier pending at that moment.
C11_UniqueRequestIds ==
    /\ [](\A i, j \in DOMAIN requests :
            (i # j /\ requests[i].listening /\ requests[j].listening)
            => requests[i].requestId # requests[j].requestId)
    /\ [][ \A i \in DOMAIN requests' : \A j \in DOMAIN requests :
             (i \notin DOMAIN requests /\ requests[j].listening)
             => requests'[i].requestId # requests[j].requestId
         ]_vars

\* C12: the step that handles a CONNECT request creates a pending entry and
\* sends no reply to the caller; the reply waits for the user's decision.
C12_ConnectAwaitsDecision ==
    [][ dispatched'.type = "CONNECT"
        => /\ Len(requests') = Len(requests) + 1
           /\ replies' = {}
      ]_vars

\* C13: the step that handles a SIGN_MESSAGE request leaves the request
\* pending and sends no reply to the caller; the reply waits for a Confirmed
\* or Rejected resolution.
C13_SignMessageAwaitsDecision ==
    [][ dispatched'.type = "SIGN_MESSAGE"
        => /\ Len(requests') = Len(requests) + 1
           /\ replies' = {}
      ]_vars

\* C14: in every step in which chrome.action.openPopup() rejects, the caller
\* of the request that is being handled receives the error reply that says
\* the popup could not be opened, and no other reply.
C14_ForegroundFailureReported ==
    [][ (\E k \in calledNext("openPopup") : effects'[k][2] = "throws")
        => replies' = {FailureReply("popup")}
      ]_vars

\* C15: every TKNZ_TOKEN_CLICKED, INIT_TOKEN_CREATE and CONNECT request gets
\* exactly one reply from its handler, also in the runs in which a
\* collaborator call of the handler throws.
C15_HandlerExceptionsReplied ==
    [][ dispatched'.type \in {"TKNZ_TOKEN_CLICKED", "INIT_TOKEN_CREATE", "CONNECT"}
        => Cardinality(replies') = 1
      ]_vars

\* the token of the request handled in the step that is being taken
tokenNext == dispatched'.token[2][1]

\* the identifier of that token: its address, or else its symbol
tokenIdNext ==
    IF tokenNext.address \in {Undefined, Str("")} THEN tokenNext.symbol ELSE tokenNext.address

\* the blocklist that step read from storage holds that identifier
blocklistHitNext ==
    /\ dispatched'.type = "TKNZ_TOKEN_CLICKED"
    /\ effects'[1][2] = "ok"
    /\ effects'[1][3][1] = "array"
    /\ \E k \in DOMAIN effects'[1][3][2] : Str(effects'[1][3][2][k]) = tokenIdNext

\* C16: a TKNZ_TOKEN_CLICKED request whose token identifier is in the
\* blocklist is answered {success:false, reason:'blocked'} after the read of
\* the blocklist and nothing else: no lookup, no write to storage, no
\* notification of the UI, no popup.
C16_BlocklistPrecedesLookup ==
    [][ blocklistHitNext
        => /\ replies' = {FailureReply("blocked")}
           /\ Len(effects') = 1
           /\ effects'[1][1] = "storage.get"
           /\ storage' = storage
           /\ popupOpen' = popupOpen
           /\ shown' = shown
      ]_vars

\* a symbol-only token, which would have been looked up, was blocked
C16_Witness ==
    /\ dispatched.type = "TKNZ_TOKEN_CLICKED"
    /\ dispatched.token = Token(Undefined, Str("AAA"))
    /\ effects = <<Call("storage.get", "ok", Arr(<<"AAA">>))>>
    /\ replies = {FailureReply("blocked")}

\* the asset a successful lookup of that step returned has a non-positive
\* price or a non-positive organic score
lookupFailsSanityNext ==
    \E k \in calledNext("searchToken") :
        /\ effects'[k][2] = "ok"
        /\ effects'[k][3][1] = "object"
        /\ \/ effects'[k][3][2][1].usdPrice <= 0
           \/ effects'[k][3][2][1].organicScore <= 0

\* C17: when the lookup of a symbol-only token returns an asset with a
\* non-positive price or a non-positive organic score, the reply is
\* {success:false, reason:'unsupported'}, lastBuyToken is not written and no
\* SHOW_SWAP notification is sent.
C17_NonPositivePriceUnsupported ==
    [][ (dispatched'.type = "TKNZ_TOKEN_CLICKED" /\ lookupFailsSanityNext)
        => /\ replies' = {FailureReply("unsupported")}
           /\ storage' = storage
           /\ calledNext("storage.set") = {}
           /\ calledNext("sendMessage") = {}
      ]_vars

\* a lookup returned a negative price while an earlier token was stored
C17_Witness ==
    /\ dispatched.type = "TKNZ_TOKEN_CLICKED"
    /\ \E k \in called("searchToken") : effects[k][3] = Asset(Str("mintB"), -1, 1)
    /\ replies = {FailureReply("unsupported")}
    /\ storage.lastBuyToken # Undefined

\* the lookup of that step threw, found nothing, or returned an asset that
\* fails the sanity checks
lookupUnusableNext ==
    \/ \E k \in calledNext("searchToken") :
         \/ effects'[k][2] = "throws"
         \/ effects'[k][3] = Null
         \/ effects'[k][3][1] = "object" /\ effects'[k][3][2][1].id \in {Undefined, Str("")}
    \/ lookupFailsSanityNext

\* C18: for a symbol-only token the reply is {success:false,
\* reason:'unsupported'} and lastBuyToken is not written when the lookup
\* throws, when it finds no asset, and when the asset fails the sanity checks.
C18_LookupFailureUnsupported ==
    [][ (dispatched'.type = "TKNZ_TOKEN_CLICKED" /\ lookupUnusableNext)
        => /\ replies' = {FailureReply("unsupported")}
           /\ storage'.lastBuyToken = storage.lastBuyToken
      ]_vars

\* one of the four fields of the options is a string that is not empty
hasNonEmptyString(options) ==
    /\ options[1] = "object"
    /\ \E f \in {"name", "ticker", "imageUrl", "description"} :
         options[2][1][f][1] = "string" /\ options[2][1][f] # Str("")

\* C19: an INIT_TOKEN_CREATE request is rejected with the invalid-options
\* reply exactly when none of name, ticker, imageUrl, description is a
\* non-empty string.
C19_AcceptedIffNonEmptyString ==
    dispatched.type = "INIT_TOKEN_CREATE"
    => (replies = {InvalidOptionsReply} <=> ~hasNonEmptyString(dispatched.options))

\* none of the four fields of the options is a string, or there are no options
hasNoStringField(options) ==
    \/ options[1] # "object"
    \/ \A f \in {"name", "ticker", "imageUrl", "description"} : options[2][1][f][1] # "string"

\* C20: an INIT_TOKEN_CREATE request that fails the validation is answered
\* with the invalid-options reply in the handler's synchronous run and has no
\* other effect: no write of initCoinData, no SDK_TOKEN_CREATE notification,
\* no popup, no pending entry.
C20_InvalidCreateHasNoEffect ==
    [][ ( /\ dispatched'.type = "INIT_TOKEN_CREATE"
          /\ \/ hasNoStringField(dispatched'.options)
             \/ replies' = {InvalidOptionsReply} )
        => /\ replies' = {InvalidOptionsReply}
           /\ effects' = <<>>
           /\ storage' = storage
           /\ popupOpen' = popupOpen
           /\ shown' = shown
           /\ requests' = requests
      ]_vars

\* options without fields were rejected after an earlier request was stored
C20_Witness ==
    /\ dispatched.type = "INIT_TOKEN_CREATE"
    /\ dispatched.options = Options(Undefined, Undefined, Undefined, Undefined)
    /\ replies = {InvalidOptionsReply}
    /\ effects = <<>>
    /\ storage.initCoinData # Undefined

\* the public key of the wallet of `data` whose id is the active wallet id
publicKeyIn(data) ==
    LET d == data[2][1]
    IN  IF d.wallets[1] = "array"
           /\ \E k \in DOMAIN d.wallets[2] : d.wallets[2][k].id = d.activeWalletId
        THEN (CHOOSE w \in Range(d.wallets[2]) : w.id = d.activeWalletId).publicKey
        ELSE Undefined

\* C21: a GET_PUBLIC_KEY request whose storage read returns is answered in
\* the handler's own run, exactly once, with { success: true, publicKey }
\* where publicKey is that of the wallet whose id is activeWalletId
\* (undefined when there is none); the handler reads storage and does nothing
\* else: no pending entry, no notification, no popup, no write.
C21_PublicKeyFromLocalState ==
    [][ (dispatched'.type = "GET_PUBLIC_KEY" /\ effects'[1][2] = "ok")
        => /\ replies' = {PublicKeyReply(publicKeyIn(effects'[1][3]))}
           /\ Len(effects') = 1
           /\ effects'[1][1] = "storage.get"
           /\ requests' = requests
           /\ storage' = storage
           /\ popupOpen' = popupOpen
           /\ shown' = shown
      ]_vars

\* the key of the second wallet was returned, while no popup is open
C21_Witness ==
    /\ dispatched.type = "GET_PUBLIC_KEY"
    /\ effects = <<Call("storage.get", "ok", WalletData(Arr(StoredWallets), Str("w2")))>>
    /\ replies = {PublicKeyReply(Str("pk2"))}
    /\ ~popupOpen

\* C22: in the step that handles a request which is surfaced to the UI the
\* popup is opened only when the request's isSidebar flag is not true, and
\* every notification sent to the UI carries the request's flag.
C22_CallerDecidesContext ==
    [][ dispatched'.type \in {"TKNZ_TOKEN_CLICKED", "INIT_TOKEN_CREATE", "CONNECT", "SIGN_MESSAGE"}
        => /\ calledNext("openPopup") # {} => ~dispatched'.isSidebar
           /\ \A k \in calledNext("sendMessage") :
                effects'[k][3][2][1].isSidebar = Bool(dispatched'.isSidebar)
      ]_vars

\* C23: the message the modal sends for a decision is the message the same
\* decision produces under every other origin (same type, requestId and
\* signed payload); the origin decides only whether the window is closed
\* after the decision.
C23_OriginDoesNotInfluence ==
    [][ /\ \A msg \in toBroker' \ toBroker : \E modal \in shown :
             \/ \A o \in Origins : msg = confirmMessage([modal EXCEPT !.origin = o])
             \/ \A o \in Origins : msg = rejectMessage([modal EXCEPT !.origin = o])
        /\ (toBroker' # toBroker /\ popupOpen /\ ~popupOpen')
           => \E modal \in shown :
                modal.origin \in {Str("https://tknz.fun"), Str("https://dex.example/launchpad")}
      ]_vars

\* a request that did not come from the launchpad was confirmed and its
\* window stayed open
C23_Witness ==
    /\ popupOpen
    /\ shown = {}
    /\ \E id \in RequestIds :
         confirmMessage(modalWithOrigin(id, <<"txA", "txB">>, Str("https://dex.example"))) \in toBroker

\* a resolver for identifier id has been registered: it is registered now, or
\* it was and has replied
registered(id) ==
    \E i \in DOMAIN requests :
        /\ requests[i].requestId = id
        /\ requests[i].listening \/ requests[i].calls >= 1

\* C24 (as stated): in the run of a sign handler the resolver is added before
\* the notification is sent to the UI.
C24_RegisteredBeforeNotified ==
    [][ dispatched'.type \in {"SIGN_TRANSACTION", "SIGN_ALL_TRANSACTIONS"}
        => /\ calledNext("addListener") # {}
           /\ \A k \in calledNext("addListener") : \A j \in calledNext("sendMessage") : k < j
      ]_vars

\* C24: the resolver of a sign request is added in the run of the handler
\* that sends the notification, so in every state the identifier of every
\* modal the UI shows and of every Confirmed / Rejected message on its way to
\* the broker is one for which a resolver has been registered.
C24_RegisteredWhenDeliverable ==
    /\ \A modal \in shown : registered(modal.requestId)
    /\ \A m \in toBroker : registered(m.requestId)
    /\ dispatched.type \in {"SIGN_TRANSACTION", "SIGN_ALL_TRANSACTIONS"}
       => /\ called("sendMessage") # {}
          /\ called("addListener") # {}
          /\ registered(requests[Len(requests)].requestId)

\* a decision is on its way to the broker and its resolver is registered
C24_Witness ==
    \E m \in toBroker : \E i \in DOMAIN requests :
        /\ requests[i].requestId = m.requestId
        /\ requests[i].listening
        /\ requests[i].calls = 0

\* C25: the message the modal sends for a request has the kind of that
\* request: SIGN_ALL_TRANSACTIONS_* for a SIGN_ALL_TRANSACTIONS request,
\* whatever the number of its transactions, and SIGN_TRANSACTION_* for a
\* SIGN_TRANSACTION request (for requests whose identifier no other request
\* holds).
C25_ResolutionKindMatches ==
    \A m \in toBroker : \A i \in DOMAIN requests :
        ( /\ requests[i].requestId = m.requestId
          /\ \A j \in DOMAIN requests : requests[j].requestId = m.requestId => j = i )
        => m.type \in {ConfirmedTypeOf(requests[i].type), RejectedTypeOf(requests[i].type)}

\* C26: the wallet_active event is logged at most once, whatever the order of
\* the PING_ACTIVE_WALLET messages and of their storage callbacks, and
\* walletLogged is true only when an event was logged.
C26_WalletLoggedOnce ==
    /\ logged <= 1
    /\ storage.walletLogged = Bool(TRUE) => logged >= 1

\* the calls of collaborator `name` that returned in the step being taken
returnedNext(name) == {k \in calledNext(name) : effects'[k][2] = "ok"}

\* C27: a TKNZ_TOKEN_CLICKED request is replied { success: true } only when
\* lastBuyToken was written and SHOW_SWAP was sent, both with the token and
\* its address; and lastBuyToken is written and SHOW_SWAP is sent only for
\* requests that are replied { success: true }.
C27_PersistedIffSuccess ==
    [][ dispatched'.type = "TKNZ_TOKEN_CLICKED"
        => /\ replies' = {SuccessReply}
              => /\ returnedNext("storage.set") # {}
                 /\ \E k \in returnedNext("sendMessage") :
                      /\ effects'[k][3][2][1].type = "SHOW_SWAP"
                      /\ storage'.lastBuyToken = stringify(effects'[k][3][2][1].payload)
           /\ (returnedNext("storage.set") # {} \/ returnedNext("sendMessage") # {})
              => replies' = {SuccessReply}
      ]_vars

C29_InjectOnlyWhenNotReady ==
    [][ dispatched'.type = "INJECT_CONTENT_SCRIPT"
        => LET t == targetTabId(dispatched')
               injections == calledNext("executeScript")
               starts == calledNext("tabs.sendMessage")
           IN  /\ contentScriptStatus' = contentScriptStatus
               /\ \A k \in starts : effects'[k][3] = <<t, "START_SELECT_MODE">>
               /\ t \in contentScriptStatus
                  => (injections = {} /\ Cardinality(starts) = 1)
               /\ t \notin contentScriptStatus
                  => /\ Cardinality(injections) = 1
                     /\ \A k \in injections :
                          /\ effects'[k][3] = t
                          /\ effects'[k][2] = "ok"
                             => (Cardinality(starts) = 1 /\ \A j \in starts : j > k)
                          /\ effects'[k][2] = "throws" => starts = {}
      ]_vars

\* selection was started in a tab whose content script had reported ready,
\* without an injection
C29_Witness ==
    /\ dispatched.type = "INJECT_CONTENT_SCRIPT"
    /\ targetTabId(dispatched) \in contentScriptStatus
    /\ effects = <<StartSelectMode(targetTabId(dispatched))>>

\* C30: a tab's flag is set only by a CONTENT_SCRIPT_READY message for that
\* tab and cleared only by the removal of that tab, which leaves the flags of
\* the other tabs as they were; after the removal of a tab the flags hold no
\* entry for it in any later state.
C30_FlagFollowsReadyAndRemoval ==
    [][ /\ \A t \in contentScriptStatus' \ contentScriptStatus :
              dispatched' = TabMsg("CONTENT_SCRIPT_READY", dispatched'.tabId, dispatched'.senderTab)
              /\ targetTabId(dispatched') = t
        /\ \A t \in contentScriptStatus \ contentScriptStatus' :
              dispatched' = TabRemovedEvent(t)
        /\ contentScriptStatus' \cap (Tabs \ openTabs') = {}
      ]_vars

\* C31: the run of the TKNZ_TOKEN_CLICKED handler sends exactly one reply on
\* every path: blocked, no asset, failed sanity check, lookup error, popup
\* failure, success, and an exception thrown by a collaborator.
C31_TokenClickedRepliesOnce ==
    [][ dispatched'.type = "TKNZ_TOKEN_CLICKED"
        => /\ Cardinality(replies') = 1
           /\ replies' \subseteq { SuccessReply, FailureReply("blocked"),
                                   FailureReply("unsupported"), FailureReply("unknown"),
                                   FailureReply("popup") }
      ]_vars

\* the read of the blocklist threw and the request was answered 'unknown'
C31_Witness ==
    /\ dispatched.type = "TKNZ_TOKEN_CLICKED"
    /\ effects = <<Call("storage.get", "throws", Undefined)>>
    /\ replies = {FailureReply("unknown")}

\* C32: an INIT_TOKEN_CREATE request that passes the validation gets exactly
\* one reply: { success: true } after the SDK_TOKEN_CREATE notification was
\* sent and, in popup context, after the popup was opened, or a failure reply
\* when opening the UI failed.
C32_AcceptedCreateRepliedOnce ==
    [][ (dispatched'.type = "INIT_TOKEN_CREATE" /\ ~hasNoStringField(dispatched'.options))
        => /\ Cardinality(replies') = 1
           /\ replies' = {SuccessReply}
              => /\ \E k \in returnedNext("sendMessage") :
                      effects'[k][3][2][1].type = "SDK_TOKEN_CREATE"
                 /\ ~dispatched'.isSidebar => returnedNext("openPopup") # {}
           /\ (\E k \in calledNext("openPopup") : effects'[k][2] = "throws")
              => replies' # {SuccessReply}
      ]_vars

\* C33: the blocklist is read once, before any lookup, and one identifier is
\* tested against it, the token's address when it has one and else its
\* symbol: the reply is 'blocked' exactly when that identifier is in the
\* blocklist, whatever the symbol of a token with an address and whatever
\* address a lookup finds later.
C33_GateTestsOneIdentifier ==
    [][ (dispatched'.type = "TKNZ_TOKEN_CLICKED" /\ effects'[1][2] = "ok")
        => /\ calledNext("storage.get") = {1}
           /\ replies' = {FailureReply("blocked")} <=> blocklistHitNext
      ]_vars

\* a symbol was resolved to an address that stands in the blocklist, and the
\* request succeeded
C33_Witness ==
    /\ dispatched.type = "TKNZ_TOKEN_CLICKED"
    /\ dispatched.token = Token(Undefined, Str("AAA"))
    /\ effects[1] = Call("storage.get", "ok", Arr(<<"mintB">>))
    /\ \E k \in called("searchToken") : effects[k][3] = Asset(Str("mintB"), 1, 1)
    /\ storage.lastBuyToken = stringify(Token(Str("mintB"), Str("AAA")))
    /\ replies = {SuccessReply}

\* C34: a message that has neither message.tabId nor a sender tab is ignored
\* by the main listener, whatever its type: no reply, no collaborator call
\* (nothing persisted, no notification, no popup), no modal, and no flag, no
\* ping and no pending entry is added or changed.
C34_TargetlessIgnored ==
    [][ ( /\ dispatched'.tabId = NoTab
          /\ dispatched'.senderTab = NoTab
          /\ dispatched'.type \in MainListenerTypes )
        => /\ replies' = {}
           /\ effects' = <<>>
           /\ storage' = storage
           /\ popupOpen' = popupOpen
           /\ shown' = shown
           /\ contentScriptStatus' = contentScriptStatus
           /\ pings' = pings
           /\ requests' = requests
      ]_vars

\* a sign request without a target tab was ignored while an earlier request
\* was pending and a flag was set
C34_Witness ==
    /\ dispatched.type = "SIGN_TRANSACTION"
    /\ targetTabId(dispatched) = NoTab
    /\ effects = <<>>
    /\ Len(requests) = 1
    /\ contentScriptStatus # {}
    /\ storage.initCoinData # Undefined

\* C35: a modal sends at most one resolution message, whatever is clicked
\* and in whatever order: a modal that has sent its message is closed, and
\* from the click on Confirm until the signing fails no click has an effect,
\* so the only message that can follow is the Confirmed one of that click.
C35_OneResolutionPerModal ==
    [][ \A new \in shown' :
          /\ Len(new.sent) <= 1
          /\ Len(new.sent) = 1 => ~new.open
          /\ \A old \in shown :
               (old.requestId = new.requestId /\ old.signing /\ new.sent # old.sent)
               => /\ old.sent = <<>>
                  /\ new.sent[1].type \in ConfirmedTypes
      ]_vars

\* an animated modal sent its Confirmed message after one failed attempt of
\* another modal, and is closed
C35_Witness ==
    \E modal \in shown : \E other \in shown :
        /\ modal.animated
        /\ modal.phase = "done"
        /\ ~modal.open
        /\ Len(modal.sent) = 1
        /\ other.failed
        /\ other.sent = <<>>

\* C36: when the signing of a transaction throws (the step in which the catch
\* of handleConfirm runs), the modal sends no message
\* (a list that holds a blob that does not sign never leads to a Confirmed
\* message), stays open and returns to the state in which signing is false
\* and both buttons are enabled; the request stays pending at the broker.
C36_FailedSigningSendsNothing ==
    [][ /\ \A old \in shown : \A new \in shown' :
             ( /\ old.requestId = new.requestId
               /\ new.failed
               /\ ~old.failed \/ old.signing )
             => /\ new.sent = <<>>
                /\ toBroker' = toBroker
                /\ new.open
                /\ ~new.signing
                /\ new.phase = "idle"
                /\ requests' = requests
                /\ \E i \in DOMAIN requests :
                     requests[i].requestId = new.requestId /\ requests[i].listening
        /\ \A new \in shown' :
             (\E k \in DOMAIN new.transactions : new.transactions[k] \notin Blobs)
             => \A j \in DOMAIN new.sent : new.sent[j].type \notin ConfirmedTypes
      ]_vars

\* the second transaction of an animated modal did not sign: the modal is
\* open, not signing, has sent nothing, and its request is pending
C36_Witness ==
    \E modal \in shown :
        /\ modal.transactions = <<"txA", "bad">>
        /\ modal.animated
        /\ modal.failed
        /\ modal.open
        /\ ~modal.signing
        /\ modal.sent = <<>>
        /\ \E i \in DOMAIN requests :
             requests[i].requestId = modal.requestId /\ requests[i].listening

\* C37: a modal without an active wallet sends no message; a Confirmed
\* message is sent only by a modal with a wallet whose transactions all
\* sign, and it carries the signed transactions, one per transaction and in
\* the order of the request: signedTransaction alone for one transaction,
\* signedTransactions alone for more.
C37_ConfirmedCarriesAllSigned ==
    \A modal \in shown :
        /\ ~modal.wallet => modal.sent = <<>>
        /\ \A j \in DOMAIN modal.sent :
             modal.sent[j].type \in ConfirmedTypes
             => /\ modal.wallet
                /\ \A k \in DOMAIN modal.transactions : modal.transactions[k] \in Blobs
                /\ modal.sent[j].requestId = modal.requestId
                /\ IF Len(modal.transactions) = 1
                   THEN /\ modal.sent[j].signedTransaction =
                             Str(signBlob(modal.transactions[1]))
                        /\ modal.sent[j].signedTransactions = Undefined
                   ELSE /\ modal.sent[j].signedTransaction = Undefined
                        /\ modal.sent[j].signedTransactions[1] = "array"
                        /\ Len(modal.sent[j].signedTransactions[2]) = Len(modal.transactions)
                        /\ \A k \in DOMAIN modal.transactions :
                             modal.sent[j].signedTransactions[2][k] =
                                 signBlob(modal.transactions[k])

\* two transactions were confirmed with two signatures in order, while a
\* modal without a wallet is open and has sent nothing
C37_Witness ==
    \E modal \in shown : \E other \in shown :
        /\ modal.transactions = <<"txA", "txB">>
        /\ Len(modal.sent) = 1
        /\ modal.sent[1].signedTransactions = Arr(<<"sigA", "sigB">>)
        /\ ~other.wallet
        /\ other.open
        /\ other.sent = <<>>

\* C38: the broker passes payloads through as they are: the modal the UI
\* mounts for a sign request holds the transaction, or the list of
\* transactions, of the inbound request under the request's id, and the reply
\* a Confirmed message causes holds the signed payload of that message.
C38_PayloadsPassThrough ==
    [][ /\ dispatched'.type = "SIGN_TRANSACTION"
           => \A modal \in shown' \ shown :
                /\ modal.transactions = <<dispatched'.transaction[2][1]>>
                /\ modal.requestId = requests'[Len(requests')].requestId
        /\ dispatched'.type = "SIGN_ALL_TRANSACTIONS"
           => \A modal \in shown' \ shown :
                /\ modal.transactions = dispatched'.transactions[2]
                /\ modal.requestId = requests'[Len(requests')].requestId
        /\ dispatched'.type \in ConfirmedTypes
           => \A rep \in responses' :
                \/ rep[2] = {<<"signedTransaction", dispatched'.signedTransaction>>}
                \/ rep[2] = {<<"signedTransactions", dispatched'.signedTransactions>>}
      ]_vars

\* the list of a SIGN_ALL_TRANSACTIONS request of two transactions is shown
\* in the modal of that request
C38_Witness ==
    /\ dispatched.type = "SIGN_ALL_TRANSACTIONS"
    /\ dispatched.transactions = Arr(<<"txA", "txB">>)
    /\ \E modal \in shown :
         /\ modal.requestId = requests[Len(requests)].requestId
         /\ modal.transactions = <<"txA", "txB">>

====
